---- MODULE Spec2Model ----
(***************************************************************************)
(* Grid-based daylight-coefficient recipe                                  *)
(* (honeybee/radiance/recipe/daylightcoeff/gridbased.py).                  *)
(*                                                                         *)
(* The recipe object DaylightCoeffGridBased is modelled as a state         *)
(* machine: its fields are the variables, its property setters, write()    *)
(* and results() are the actions.  The stage command builders of           *)
(* recipeutil and the base class GenericGridBased are collaborators whose  *)
(* code lives in other files; they are modelled from their documented      *)
(* contract.                                                               *)
(***************************************************************************)
EXTENDS Integers, Sequences, FiniteSets, TLC

VARIABLES
    skyMatrix,        \* self._skyMatrix: the sky object the recipe holds
    simType,          \* self._simType
    skyType,          \* skyType[s]: the skyType attribute of sky object s
    reuseDaylightMtx, \* self.reuseDaylightMtx
    windowGroups,     \* self.windowGroups: the stateCount of each window group
    analysisGrids,    \* self.analysisGrids: the point count of each grid
    commands,         \* self._commands
    resultFiles,      \* self._resultFiles
    isCalculated,     \* self._isCalculated
    disk,             \* the files that exist in the project folder
    batchFile,        \* the text of commands.bat, <<>> while it was never written
    gridValues,       \* the values results() has put on the analysis grids
    dataLines,        \* the number of data rows in each result file on disk
    pointsFile,       \* the text of the points file a recipe can be built from
    calls,            \* history: one record per write() call
    ret,              \* the value the last property read returned
    last              \* the last operation, its arguments and its outcome

vars == <<skyMatrix, simType, skyType, reuseDaylightMtx, windowGroups,
          analysisGrids, commands, resultFiles, isCalculated, disk, batchFile,
          gridValues, dataLines, pointsFile, calls, ret, last>>

recipeVars == <<skyMatrix, simType, skyType, reuseDaylightMtx, windowGroups,
                analysisGrids, commands, resultFiles, isCalculated, disk,
                batchFile, gridValues, dataLines, pointsFile, calls>>

(***************************************************************************)
(* Bounds of the model.                                                    *)
(***************************************************************************)
MaxGroups == 2      \* window groups of a recipe: 0..MaxGroups
MaxStates == 3      \* states of a window group: 1..MaxStates
MaxWrites == 2      \* write() calls on one instance
MaxKind == 3        \* integer simulation kinds tried: -1..MaxKind
MaxStages == 3      \* window-group stages of a recipe that is compiled
MaxName == 4        \* characters of a result file name before its extension
MaxExtra == 1       \* data rows a result file holds beyond the recipe's points
MaxRows == 3        \* rows of a points file

(***************************************************************************)
(* Sky objects.  A caller may hand the recipe any object: a climate-based  *)
(* sky matrix, a sky matrix that is not climate-based, a point-in-time     *)
(* sky, or something that is no sky at all.  The recipe reads three        *)
(* attributes of it.                                                       *)
(***************************************************************************)
SkyObjs == {"climateMtx", "plainMtx", "pointInTime", "notASky"}

isRadianceSky(s) == s # "notASky"
isPointInTime(s) == s = "pointInTime"
isClimateBased(s) == s = "climateMtx"

SkyMatrices == {s \in SkyObjs : isRadianceSky(s) /\ ~isPointInTime(s)}

(***************************************************************************)
(* Values a caller may assign to simulationType: an integer, a float       *)
(* (v counts tenths: 25 is 2.5), None, or a string that is no number.      *)
(***************************************************************************)
IntVal(n) == [t |-> "int", v |-> n]
FloatVal(tenths) == [t |-> "float", v |-> tenths]
NoneVal == [t |-> "none", v |-> 0]
StrVal == [t |-> "str", v |-> 0]

Values ==
    {IntVal(n) : n \in (0 - 1)..MaxKind}
        \cup {FloatVal(0 - 5), FloatVal(15), FloatVal(25), FloatVal(35)}
        \cup {NoneVal, StrVal}

\* Python's int(value): an int is itself, a float is truncated toward zero,
\* None raises TypeError, a string that is no number raises ValueError.
int(value) ==
    CASE value.t = "int" -> [err |-> "none", v |-> value.v]
      [] value.t = "float" ->
            [err |-> "none",
             v |-> IF value.v >= 0 THEN value.v \div 10
                   ELSE 0 - ((0 - value.v) \div 10)]
      [] value.t = "none" -> [err |-> "TypeError", v |-> 0]
      [] OTHER -> [err |-> "ValueError", v |-> 0]

(***************************************************************************)
(* The property setters, as functions of the fields they read.             *)
(***************************************************************************)
SetterResult(e, st, types) == [err |-> e, simType |-> st, skyType |-> types]

\* Mutant: the setter forgets to write the kind onto the sky.
simulationType_setter_noPropagate(value, sky, st, types) ==
    LET c == int(value)
        v == IF c.err = "TypeError" THEN 0 ELSE c.v
    IN  IF c.err = "ValueError" THEN SetterResult("ValueError", st, types)
        ELSE IF ~(0 <= v /\ v <= 2) THEN SetterResult("AssertionError", st, types)
        ELSE IF v = 1 /\ ~isClimateBased(sky)
            THEN SetterResult("AssertionError", st, types)
        ELSE SetterResult("none", v, types)

\* Mutant: the range check lets 3 through.
simulationType_setter_wideRange(value, sky, st, types) ==
    LET c == int(value)
        v == IF c.err = "TypeError" THEN 0 ELSE c.v
    IN  IF c.err = "ValueError" THEN SetterResult("ValueError", st, types)
        ELSE IF ~(0 <= v /\ v <= 3) THEN SetterResult("AssertionError", st, types)
        ELSE IF v = 1 /\ ~isClimateBased(sky)
            THEN SetterResult("AssertionError", st, types)
        ELSE SetterResult("none", v, [types EXCEPT ![sky] = v])

\* Mutant: the kind is recorded before it is checked.
simulationType_setter_assignFirst(value, sky, st, types) ==
    LET c == int(value)
        v == IF c.err = "TypeError" THEN 0 ELSE c.v
    IN  IF c.err = "ValueError" THEN SetterResult("ValueError", st, types)
        ELSE IF ~(0 <= v /\ v <= 2) THEN SetterResult("AssertionError", v, types)
        ELSE IF v = 1 /\ ~isClimateBased(sky)
            THEN SetterResult("AssertionError", v, [types EXCEPT ![sky] = v])
        ELSE SetterResult("none", v, [types EXCEPT ![sky] = v])

simulationType_setter(value, sky, st, types) ==
    LET c == int(value)
        v == IF c.err = "TypeError" THEN 0 ELSE c.v
    IN  IF c.err = "ValueError" THEN SetterResult("ValueError", st, types)
        ELSE IF ~(0 <= v /\ v <= 2) THEN SetterResult("AssertionError", st, types)
        ELSE IF v = 1 /\ ~isClimateBased(sky)
            THEN SetterResult("AssertionError", st, types)
        ELSE SetterResult("none", v, [types EXCEPT ![sky] = v])

skyMatrix_setter(newSky, sky) ==
    IF ~isRadianceSky(newSky) THEN [err |-> "AssertionError", skyMatrix |-> sky]
    ELSE IF isPointInTime(newSky) THEN [err |-> "AssertionError", skyMatrix |-> sky]
    ELSE [err |-> "none", skyMatrix |-> newSky]

(***************************************************************************)
(* fromPointsFile.  A file is kept as whether it can be opened and as its  *)
(* lines, each a sequence of characters that ends with "\n".  py is the    *)
(* major version of the Python that runs the code: a file opened with "rb" *)
(* yields str lines under Python 2 and bytes lines under Python 3.         *)
(***************************************************************************)
NoFile == [readable |-> FALSE, lines |-> <<>>]

\* inf.readline(), the n-th call: the n-th line, or "" at the end of file.
readline(file, n) == IF n <= Len(file.lines) THEN file.lines[n] ELSE <<>>

\* s[m-1:n] of Python for 1 <= m: a slice stops at the end of s.
slice(s, m, n) ==
    IF m > Len(s) \/ m > n THEN <<>>
    ELSE SubSeq(s, m, IF n > Len(s) THEN Len(s) ELSE n)

\* c.split() for a string c of one character.
splitChar(c) == IF c \in {" ", "\n"} THEN <<>> ELSE <<c>>

lower(text) ==
    [i \in 1..Len(text) |->
        CASE text[i] = "E" -> "e"
          [] text[i] = "P" -> "p"
          [] text[i] = "W" -> "w"
          [] OTHER -> text[i]]

endswith(text, suffix) ==
    /\ Len(text) >= Len(suffix)
    /\ SubSeq(text, Len(text) - Len(suffix) + 1, Len(text)) = suffix

PointsResult(e, points, vectors) ==
    [err |-> e, pointGroups |-> points, vectorGroups |-> vectors]

\* The extension check of fromWeatherFilePointsAndVectors; what it builds
\* is the recipe for the point and vector groups it is given.
fromWeatherFilePointsAndVectors(epwFile, pointGroups, vectorGroups) ==
    IF ~endswith(lower(epwFile), <<".", "e", "p", "w">>)
    THEN PointsResult("AssertionError", <<>>, <<>>)
    ELSE PointsResult("none", pointGroups, vectorGroups)

\* "for line in inf.readline()" walks through the characters of one line:
\* the point groups come from the characters of the first line and the
\* vector groups from those of the second.  Under Python 3 a character of
\* a bytes line is an int, which has no split: the exception is caught
\* and raised again as ValueError, as the one of a file that cannot be
\* opened.
fromPointsFile(epwFile, file, py) ==
    LET first == readline(file, 1)
        second == readline(file, 2)
    IN  IF ~file.readable THEN PointsResult("ValueError", <<>>, <<>>)
        ELSE IF py = 3 /\ (first # <<>> \/ second # <<>>)
            THEN PointsResult("ValueError", <<>>, <<>>)
        ELSE fromWeatherFilePointsAndVectors(
                epwFile,
                [i \in 1..Len(first) |-> slice(splitChar(first[i]), 1, 3)],
                [i \in 1..Len(second) |->
                    slice(splitChar(second[i]), 4, Len(splitChar(second[i])))])

(***************************************************************************)
(* totalRunsCount                                                          *)
(***************************************************************************)
RECURSIVE SumSeq(_)
SumSeq(s) == IF s = <<>> THEN 0 ELSE Head(s) + SumSeq(Tail(s))

\* Mutant: the base case is not counted.
totalRunsCount_noBase(wgs) == SumSeq(wgs)

totalRunsCount(wgs) == SumSeq(wgs) + 1

(***************************************************************************)
(* Commands and file names.  A command is kept as what later steps read    *)
(* of it: the stage it belongs to, whether its text begins with "::" (a    *)
(* comment), and the source and state it is about.                         *)
(*                                                                         *)
(* A file name is a text: a sequence of characters.  A word that holds no  *)
(* "." and no "/" and that no operation cuts through (a project name, a    *)
(* window-group name) is kept as one element of the sequence.              *)
(***************************************************************************)
projectName == "untitled"
projectFolder == <<"target", "/", projectName>>

\* os.path.join(a, b) for a relative b.
join(a, b) == a \o <<"/">> \o b

\* os.path.split(text)[-1]: what follows the last "/".
RECURSIVE basename(_)
basename(text) ==
    IF text = <<>> THEN <<>>
    ELSE IF text[Len(text)] = "/" THEN <<>>
    ELSE Append(basename(SubSeq(text, 1, Len(text) - 1)), text[Len(text)])

\* text[:-4]
dropLast4(text) == SubSeq(text, 1, Len(text) - 4)

\* text.split(".."): seg is the segment being read, rest the text not yet
\* read; ".." is matched from the left, without overlap.
RECURSIVE splitFrom(_, _)
splitFrom(seg, rest) ==
    IF rest = <<>> THEN <<seg>>
    ELSE IF Len(rest) >= 2 /\ rest[1] = "." /\ rest[2] = "."
        THEN <<seg>> \o splitFrom(<<>>, SubSeq(rest, 3, Len(rest)))
    ELSE splitFrom(Append(seg, rest[1]), Tail(rest))

split(text) == splitFrom(<<>>, text)

Cmd(stage, comment, source, state) ==
    [stage |-> stage, comment |-> comment, source |-> source, state |-> state]

HeaderCmd == Cmd("header", FALSE, "", "")

SkyFile(sky) == <<"sky", sky>>

\* The name a builder gives the output of a stage, and the manifest entry
\* write() makes of it.
Ext == <<".", "i", "l", "l">>
ResultName(source, state) ==
    <<projectName, ".", ".", source, ".", ".", state>> \o Ext
ResultPath(source, state) == join(projectFolder, ResultName(source, state))

WGName(g) == "wg" \o ToString(g)
StateName(s) == ToString(s)

\* The (source, state) pairs of the window-group stages, in emission order:
\* group by group, and state by state within a group.
RECURSIVE StatesFrom(_, _, _)
StatesFrom(g, s, n) ==
    IF s >= n THEN <<>>
    ELSE <<[source |-> WGName(g), state |-> StateName(s)]>> \o StatesFrom(g, s + 1, n)

RECURSIVE GroupsFrom(_, _)
GroupsFrom(wgs, g) ==
    IF g > Len(wgs) THEN <<>>
    ELSE StatesFrom(g, 0, wgs[g]) \o GroupsFrom(wgs, g + 1)

WGroupStages(wgs) == GroupsFrom(wgs, 1)
SceneStage == [source |-> "scene", state |-> "default"]

(***************************************************************************)
(* Stage command builders (recipeutil).  Each returns the commands of its  *)
(* stage and the files the stage produces.  A stage whose output exists    *)
(* is declared but not generated when reuse is asked for.                  *)
(***************************************************************************)
getCommandsSky(sky, reuse, dsk) ==
    [commands |-> IF reuse /\ SkyFile(sky) \in dsk THEN <<>>
                  ELSE <<Cmd("sky", TRUE, sky, ""), Cmd("sky", FALSE, sky, "")>>,
     files |-> <<SkyFile(sky)>>]

StageCommands(stage, st, reuse, dsk) ==
    IF reuse /\ ResultName(st.source, st.state) \in dsk THEN <<>>
    ELSE <<Cmd(stage, TRUE, st.source, st.state),
           Cmd(stage, FALSE, st.source, st.state)>>

getCommandsSceneDaylightCoeff(reuse, dsk) ==
    [commands |-> StageCommands("scene", SceneStage, reuse, dsk),
     results |-> <<ResultName(SceneStage.source, SceneStage.state)>>]

RECURSIVE WGroupCommands(_, _, _)
WGroupCommands(stages, reuse, dsk) ==
    IF stages = <<>> THEN <<>>
    ELSE StageCommands("wgroup", Head(stages), reuse, dsk)
            \o WGroupCommands(Tail(stages), reuse, dsk)

getCommandsWGroupsDaylightCoeff(wgs, reuse, dsk) ==
    LET stages == WGroupStages(wgs)
    IN  [commands |-> WGroupCommands(stages, reuse, dsk),
         results |-> [i \in 1..Len(stages) |->
                        ResultName(stages[i].source, stages[i].state)]]

(***************************************************************************)
(* write(): what it appends to the accumulators and what it writes.        *)
(***************************************************************************)
\* Mutant: the daylight-coefficient builders are always asked to reuse,
\* as the sky builder is, whatever the recipe's flag says.
write_commands_alwaysReuse(cmds, header, sky, wgs, reuse, dsk) ==
    cmds \o (IF header THEN <<HeaderCmd>> ELSE <<>>)
         \o getCommandsSky(sky, TRUE, dsk).commands
         \o getCommandsSceneDaylightCoeff(TRUE, dsk).commands
         \o getCommandsWGroupsDaylightCoeff(wgs, TRUE, dsk).commands

\* Mutant: the window-group builder is never asked to reuse.
write_commands_wgNeverReuse(cmds, header, sky, wgs, reuse, dsk) ==
    cmds \o (IF header THEN <<HeaderCmd>> ELSE <<>>)
         \o getCommandsSky(sky, TRUE, dsk).commands
         \o getCommandsSceneDaylightCoeff(reuse, dsk).commands
         \o getCommandsWGroupsDaylightCoeff(wgs, FALSE, dsk).commands

\* Mutant: the header is appended after the sky commands.
write_commands_headerLate(cmds, header, sky, wgs, reuse, dsk) ==
    cmds \o getCommandsSky(sky, TRUE, dsk).commands
         \o (IF header THEN <<HeaderCmd>> ELSE <<>>)
         \o getCommandsSceneDaylightCoeff(reuse, dsk).commands
         \o getCommandsWGroupsDaylightCoeff(wgs, reuse, dsk).commands

\* Mutant: the command list is reset at each call.
write_commands_reset(cmds, header, sky, wgs, reuse, dsk) ==
    (IF header THEN <<HeaderCmd>> ELSE <<>>)
         \o getCommandsSky(sky, TRUE, dsk).commands
         \o getCommandsSceneDaylightCoeff(reuse, dsk).commands
         \o getCommandsWGroupsDaylightCoeff(wgs, reuse, dsk).commands

\* Mutant: the sky builder is asked to reuse only when the recipe's flag
\* is set.
write_commands_skyFollowsFlag(cmds, header, sky, wgs, reuse, dsk) ==
    cmds \o (IF header THEN <<HeaderCmd>> ELSE <<>>)
         \o getCommandsSky(sky, reuse, dsk).commands
         \o getCommandsSceneDaylightCoeff(reuse, dsk).commands
         \o getCommandsWGroupsDaylightCoeff(wgs, reuse, dsk).commands

write_commands(cmds, header, sky, wgs, reuse, dsk) ==
    cmds \o (IF header THEN <<HeaderCmd>> ELSE <<>>)
         \o getCommandsSky(sky, TRUE, dsk).commands
         \o getCommandsSceneDaylightCoeff(reuse, dsk).commands
         \o getCommandsWGroupsDaylightCoeff(wgs, reuse, dsk).commands

\* os.path.join(projectFolder, str(result)) for result in results
joinAll(results) == [i \in 1..Len(results) |-> join(projectFolder, results[i])]

\* Mutant: the result of the base case is not put on the manifest.
write_resultFiles_noBase(rfs, wgs, reuse, dsk) ==
    rfs \o joinAll(getCommandsWGroupsDaylightCoeff(wgs, reuse, dsk).results)

write_resultFiles(rfs, wgs, reuse, dsk) ==
    rfs \o joinAll(getCommandsSceneDaylightCoeff(reuse, dsk).results)
        \o joinAll(getCommandsWGroupsDaylightCoeff(wgs, reuse, dsk).results)

\* What write() puts in the project folder before it asks for any command:
\* the geometry and material files of the scene and the points file.
writeRadFilesDaylightCoeff ==
    {<<"scene", "opaque">>, <<"scene", "glazing">>, <<"scene", "wgroups">>}
writeAnalysisGrids == <<"points", projectName>>

write_files(dsk) == dsk \cup writeRadFilesDaylightCoeff \cup {writeAnalysisGrids}

\* A daylight-coefficient builder rejects an empty point set.
BuilderInputError(grids) == SumSeq(grids) = 0

\* The command list a call leaves behind when the base-scene builder
\* raises: the header and the sky commands are already appended.
write_aborted(cmds, header, sky, dsk) ==
    cmds \o (IF header THEN <<HeaderCmd>> ELSE <<>>)
         \o getCommandsSky(sky, TRUE, dsk).commands

\* The text of commands.bat: "@echo off", then every accumulated command,
\* a comment behind "echo ".
EchoOff == [echo |-> FALSE, cmd |-> Cmd("@echo off", FALSE, "", "")]

\* Mutant: every command is written behind "echo ".
write_batchFile_echoAll(cmds) ==
    <<EchoOff>> \o [i \in 1..Len(cmds) |-> [echo |-> TRUE, cmd |-> cmds[i]]]

write_batchFile(cmds) ==
    <<EchoOff>> \o [i \in 1..Len(cmds) |-> [echo |-> cmds[i].comment, cmd |-> cmds[i]]]

(***************************************************************************)
(* results(): the gate on the calculated flag, then the merge of every     *)
(* result file onto every analysis grid.                                   *)
(***************************************************************************)
\* self.skyMatrix.hoys: the time steps of the sky matrix.
hoys(sky) == IF isClimateBased(sky) THEN <<0, 1>> ELSE <<12>>

\* analysisGrid.setValuesFromFile(rf, hoys, source, state, startLine,
\* header=True, checkPointCount=False) on grid k of n points: the data rows
\* startLine .. startLine + n - 1 of the file go to the points of the grid,
\* in order, one value per time step; the rows of the file are not counted.
setValuesFromFile(k, n, rf, hrs, source, state, startLine) ==
    {[grid |-> k, point |-> p, hoy |-> hrs[t], source |-> source,
      state |-> state, file |-> rf, line |-> startLine + p - 1] :
        p \in 1..n, t \in 1..Len(hrs)}

\* Mutant: the rows of a grid are counted from the size of the grid before
\* it alone.
startLineOf_previousOnly(grids, count) ==
    IF count = 1 THEN 0 ELSE grids[count - 1]

\* startLine when the inner loop reaches grid count (counted from 1): 0 at
\* the first grid of every file, then the sizes of the grids before it.
RECURSIVE startLineOf(_, _)
startLineOf(grids, count) ==
    IF count = 1 THEN 0 ELSE startLineOf(grids, count - 1) + grids[count - 1]

\* Mutant: the name is split at every ".." but the extension is kept.
fn_keepExt(rf) == split(basename(rf))

\* fn = os.path.split(rf)[-1][:-4].split("..")
fn(rf) == split(dropLast4(basename(rf)))

\* The body of the loop over self._resultFiles for one file: fn[-2] raises
\* IndexError when fn has one element.
mergeFile(rf, grids, hrs) ==
    LET f == fn(rf)
    IN  IF Len(f) < 2 THEN [err |-> "IndexError", values |-> {}]
        ELSE [err |-> "none",
              values |-> UNION {setValuesFromFile(k, grids[k], rf, hrs,
                                                  f[Len(f) - 1], f[Len(f)],
                                                  startLineOf(grids, k)) :
                                    k \in 1..Len(grids)}]

\* The loop over self._resultFiles from file i on: the first file whose name
\* cannot be split ends it, and what was merged before stays on the grids.
RECURSIVE setValues(_, _, _, _)
setValues(rfs, grids, hrs, i) ==
    IF i > Len(rfs) THEN [err |-> "none", values |-> {}]
    ELSE LET m == mergeFile(rfs[i], grids, hrs)
         IN  IF m.err # "none" THEN m
             ELSE LET r == setValues(rfs, grids, hrs, i + 1)
                  IN  [err |-> r.err, values |-> m.values \cup r.values]

\* Mutant: the calculated flag is not looked at.
results_ungated(flag, rfs, grids, hrs, vals) ==
    LET r == setValues(rfs, grids, hrs, 1)
    IN  [err |-> r.err, gridValues |-> vals \cup r.values]

results(flag, rfs, grids, hrs, vals) ==
    IF ~flag THEN [err |-> "AssertionError", gridValues |-> vals]
    ELSE LET r == setValues(rfs, grids, hrs, 1)
         IN  [err |-> r.err, gridValues |-> vals \cup r.values]

(***************************************************************************)
(* Configurations a recipe is constructed with.                            *)
(***************************************************************************)
GroupConfigs ==
    UNION {[1..n -> 1..MaxStates] : n \in 0..MaxGroups}

GridConfigs == {<<2>>, <<1, 2>>}

\* The window groups of the recipes that are compiled.
CompileConfigs == {wgs \in GroupConfigs : SumSeq(wgs) <= MaxStages}

\* Every file a stage of the recipe may find on disk before a call.
StageFiles(wgs, sky) ==
    {SkyFile(sky)}
        \cup {ResultName(SceneStage.source, SceneStage.state)}
        \cup {ResultName(WGroupStages(wgs)[i].source, WGroupStages(wgs)[i].state) :
                i \in 1..Len(WGroupStages(wgs))}

Op(name, value, sky, header, e) ==
    [op |-> name, val |-> value, sky |-> sky, hdr |-> header, err |-> e]

\* __init__: the sky is assigned first, then the simulation kind; the
\* constructor returns only when both assignments succeed.
Construct(skyMtx, value, types, wgs, grids, reuse, dsk) ==
    LET a == skyMatrix_setter(skyMtx, skyMtx)
        b == simulationType_setter(value, skyMtx, 0, types)
    IN  /\ a.err = "none"
        /\ b.err = "none"
        /\ skyMatrix = a.skyMatrix
        /\ simType = b.simType
        /\ skyType = b.skyType
        /\ reuseDaylightMtx = reuse
        /\ windowGroups = wgs
        /\ analysisGrids = grids
        /\ commands = <<>>
        /\ resultFiles = <<>>
        /\ isCalculated = FALSE
        /\ disk = dsk
        /\ batchFile = <<>>
        /\ gridValues = {}
        /\ dataLines = SumSeq(grids)
        /\ pointsFile = NoFile
        /\ calls = <<>>
        /\ ret = 0
        /\ last = Op("__init__", value, skyMtx, FALSE, "none")

\* Construction for the compile life cycle: any window groups, any reuse
\* flag, any set of stage outputs already on disk.
Init ==
    \E wgs \in CompileConfigs, reuse \in BOOLEAN :
        \E dsk \in SUBSET StageFiles(wgs, "climateMtx") :
            Construct("climateMtx", IntVal(0), [s \in SkyMatrices |-> 0], wgs,
                      <<1, 2>>, reuse, dsk)

\* Construction for the whole life cycle of one recipe with one window
\* group: any sky object, any reuse flag, and the simulation kinds that
\* reach each branch of the setter.
LifeValues == {IntVal(0), IntVal(1), IntVal(MaxKind), StrVal}

\* Its analysis grids: two grids of one and two points, or one grid that
\* holds no point.
LifeGrids == {<<1, 2>>, <<0>>}

InitLife ==
    \E skyMtx \in SkyObjs, value \in LifeValues, reuse \in BOOLEAN,
       grids \in LifeGrids :
        Construct(skyMtx, value, [s \in SkyMatrices |-> 0], <<1>>, grids,
                  reuse, {})

\* Construction for the configuration interface: any sky object, any
\* simulation kind, any kind already recorded on the sky objects.
InitConfig ==
    \E skyMtx \in SkyObjs, value \in Values, types \in [SkyMatrices -> 0..2],
       wgs \in GroupConfigs, grids \in GridConfigs :
        Construct(skyMtx, value, types, wgs, grids, TRUE, {})

(***************************************************************************)
(* Actions.                                                                *)
(***************************************************************************)
SetSimulationType(value) ==
    LET r == simulationType_setter(value, skyMatrix, simType, skyType)
    IN  /\ simType' = r.simType
        /\ skyType' = r.skyType
        /\ last' = Op("simulationType", value, "", FALSE, r.err)
        /\ UNCHANGED <<skyMatrix, reuseDaylightMtx, windowGroups, analysisGrids,
                       commands, resultFiles, isCalculated, disk, batchFile,
                       gridValues, dataLines, pointsFile, calls, ret>>

SetSkyMatrix(newSky) ==
    LET r == skyMatrix_setter(newSky, skyMatrix)
    IN  /\ skyMatrix' = r.skyMatrix
        /\ last' = Op("skyMatrix", NoneVal, newSky, FALSE, r.err)
        /\ UNCHANGED <<simType, skyType, reuseDaylightMtx, windowGroups,
                       analysisGrids, commands, resultFiles, isCalculated, disk,
                       batchFile, gridValues, dataLines, pointsFile, calls, ret>>

GetTotalRunsCount ==
    /\ ret' = totalRunsCount(windowGroups)
    /\ last' = Op("totalRunsCount", NoneVal, "", FALSE, "none")
    /\ UNCHANGED recipeVars

Write(header) ==
    LET failed == BuilderInputError(analysisGrids)
    IN  /\ Len(calls) < MaxWrites
        /\ disk' = write_files(disk)
        /\ commands' =
            IF failed THEN write_aborted(commands, header, skyMatrix, disk)
            ELSE write_commands(commands, header, skyMatrix, windowGroups,
                                reuseDaylightMtx, disk)
        /\ resultFiles' =
            IF failed THEN resultFiles
            ELSE write_resultFiles(resultFiles, windowGroups, reuseDaylightMtx,
                                   disk)
        /\ batchFile' = IF failed THEN batchFile ELSE write_batchFile(commands')
        /\ calls' = Append(calls, [hdr |-> header, sky |-> skyMatrix,
                                   dsk |-> disk, from |-> Len(commands),
                                   rfrom |-> Len(resultFiles)])
        /\ last' = Op("write", NoneVal, "", header,
                      IF failed THEN "BuilderInputError" ELSE "none")
        /\ UNCHANGED <<skyMatrix, simType, skyType, reuseDaylightMtx,
                       windowGroups, analysisGrids, isCalculated, gridValues,
                       dataLines, pointsFile, ret>>

\* The files the commands of a script produce when they are run.
Produced(script) ==
    {SkyFile(script[i].cmd.source) :
        i \in {j \in 1..Len(script) : script[j].cmd.stage = "sky"}}
    \cup {ResultName(script[i].cmd.source, script[i].cmd.state) :
        i \in {j \in 1..Len(script) : script[j].cmd.stage \in {"scene", "wgroup"}}}

\* The caller runs commands.bat and marks the recipe as calculated.
RunScript ==
    /\ batchFile # <<>>
    /\ disk' = disk \cup Produced(batchFile)
    /\ isCalculated' = TRUE
    /\ last' = Op("run", NoneVal, "", FALSE, "none")
    /\ UNCHANGED <<skyMatrix, simType, skyType, reuseDaylightMtx, windowGroups,
                   analysisGrids, commands, resultFiles, batchFile, gridValues,
                   dataLines, pointsFile, calls, ret>>

Results ==
    LET r == results(isCalculated, resultFiles, analysisGrids, hoys(skyMatrix),
                     gridValues)
    IN  /\ gridValues' = r.gridValues
        /\ last' = Op("results", NoneVal, "", FALSE, r.err)
        /\ UNCHANGED <<skyMatrix, simType, skyType, reuseDaylightMtx,
                       windowGroups, analysisGrids, commands, resultFiles,
                       isCalculated, disk, batchFile, dataLines, pointsFile,
                       calls, ret>>

\* The compile life cycle: write() calls and runs of the script in any
\* order.  results() is part of SpecLife and SpecMerge.
Next ==
    \/ \E header \in BOOLEAN : Write(header)
    \/ RunScript

Spec == Init /\ [][Next]_vars

NextConfig ==
    \/ \E value \in Values : SetSimulationType(value)
    \/ \E newSky \in SkyObjs : SetSkyMatrix(newSky)
    \/ GetTotalRunsCount

SpecConfig == InitConfig /\ [][NextConfig]_vars

NextLife ==
    \/ \E value \in LifeValues : SetSimulationType(value)
    \/ \E newSky \in SkyObjs : SetSkyMatrix(newSky)
    \/ \E header \in BOOLEAN : Write(header)
    \/ RunScript
    \/ Results

SpecLife == InitLife /\ [][NextLife]_vars

(***************************************************************************)
(* The merger on its own: results() on a recipe that was compiled and run, *)
(* for any manifest of one or two file names, one of them any text of at   *)
(* most MaxName characters before the extension.                           *)
(***************************************************************************)
NameChars == {"w", "0", "."}

Texts(n) == UNION {[1..k -> NameChars] : k \in 0..n}

MergeNames ==
    {join(projectFolder, t \o Ext) : t \in Texts(MaxName)}
        \cup {ResultPath(WGName(1), StateName(0))}

MergeManifests ==
    LET scene == ResultPath(SceneStage.source, SceneStage.state)
    IN  {<<name>> : name \in MergeNames}
            \cup {<<scene, name>> : name \in MergeNames}
            \cup {<<name, scene>> : name \in MergeNames}

MergeGrids == {<<2>>, <<3>>, <<1, 2>>, <<2, 1, 2>>}

InitMerge ==
    \E rfs \in MergeManifests, grids \in MergeGrids, sky \in SkyMatrices,
       extra \in 0..MaxExtra :
        /\ skyMatrix = sky
        /\ simType = 0
        /\ skyType = [s \in SkyMatrices |-> 0]
        /\ reuseDaylightMtx = TRUE
        /\ windowGroups = <<>>
        /\ analysisGrids = grids
        /\ commands = <<>>
        /\ resultFiles = rfs
        /\ isCalculated = TRUE
        /\ disk = {rfs[i] : i \in 1..Len(rfs)}
        /\ batchFile = <<>>
        /\ gridValues = {}
        /\ dataLines = SumSeq(grids) + extra
        /\ pointsFile = NoFile
        /\ calls = <<>>
        /\ ret = 0
        /\ last = Op("run", NoneVal, "", FALSE, "none")

NextMerge == Results

SpecMerge == InitMerge /\ [][NextMerge]_vars

(***************************************************************************)
(* Building a recipe from a points file: any file of at most MaxRows rows  *)
(* "x y z" or "x y z dx dy dz", or a file that cannot be opened.           *)
(***************************************************************************)
Coordinates == {<<"1", "2", "3">>, <<"4", "5", "6">>}
Directions == {<<>>, <<"0", "0", "1">>}
Rows == {c \o d : c \in Coordinates, d \in Directions}

\* The line of text of a row: its columns with a blank between them, then
\* the end of line.
RECURSIVE lineOf(_)
lineOf(row) ==
    IF Len(row) = 1 THEN <<row[1], "\n">>
    ELSE <<row[1], " ">> \o lineOf(Tail(row))

PointFiles ==
    {[readable |-> TRUE, lines |-> [i \in 1..Len(rows) |-> lineOf(rows[i])]] :
        rows \in UNION {[1..n -> Rows] : n \in 0..MaxRows}}
    \cup {NoFile}

EpwFiles == {<<"w", ".", "e", "p", "w">>, <<"W", ".", "E", "P", "W">>,
             <<"w", ".", "t", "x", "t">>}

PythonVersions == {2, 3}

\* The class method is called while a points file, or none, lies on disk;
\* the recipe of the state is one built before, which the call leaves alone.
InitPoints ==
    \E file \in PointFiles :
        /\ skyMatrix = "climateMtx"
        /\ simType = 0
        /\ skyType = [s \in SkyMatrices |-> 0]
        /\ reuseDaylightMtx = TRUE
        /\ windowGroups = <<>>
        /\ analysisGrids = <<1, 2>>
        /\ commands = <<>>
        /\ resultFiles = <<>>
        /\ isCalculated = FALSE
        /\ disk = {}
        /\ batchFile = <<>>
        /\ gridValues = {}
        /\ dataLines = SumSeq(analysisGrids)
        /\ pointsFile = file
        /\ calls = <<>>
        /\ ret = PointsResult("none", <<>>, <<>>)
        /\ last = Op("__init__", NoneVal, "climateMtx", FALSE, "none")

FromPointsFile(epwFile, py) ==
    /\ ret' = fromPointsFile(epwFile, pointsFile, py)
    /\ last' = Op("fromPointsFile", epwFile, "", FALSE, ret'.err)
    /\ UNCHANGED recipeVars

NextPoints == \E epwFile \in EpwFiles, py \in PythonVersions : FromPointsFile(epwFile, py)

SpecPoints == InitPoints /\ [][NextPoints]_vars

(***************************************************************************)
(* Configuration interface (SpecConfig).                                   *)
(***************************************************************************)

\* C1: assigning simulation kind 1 (radiation) fails when the recipe's sky
\* is not climate-based; when it is climate-based the assignment succeeds
\* and the kind recorded on the sky equals the kind recorded on the
\* recipe, 1.
C1_RadiationNeedsClimateSky ==
    (last.op = "simulationType" /\ last.val = IntVal(1)) =>
        IF isClimateBased(skyMatrix)
        THEN /\ last.err = "none"
             /\ simType = 1
             /\ skyType[skyMatrix] = simType
        ELSE last.err # "none"

C1_Witness ==
    /\ last.op = "simulationType"
    /\ last.val = IntVal(1)
    /\ isClimateBased(skyMatrix)
    /\ last.err = "none"
    /\ skyType[skyMatrix] = 1

\* C2: the recipe is never inconsistent: a recipe whose simulation kind is
\* radiation holds a climate-based sky, and the sky it holds is never a
\* point-in-time sky.
C2_NeverInconsistent ==
    /\ simType = 1 => isClimateBased(skyMatrix)
    /\ ~isPointInTime(skyMatrix)

\* C3: the kind stored on the recipe equals the kind stored on the sky the
\* recipe currently holds.
C3_KindsAgree == simType = skyType[skyMatrix]

\* C4, as claimed: a point-in-time sky is rejected; a kind outside {0,1,2}
\* is rejected; 0 and 2 are accepted on any sky matrix; 1 is accepted
\* exactly when the sky is climate-based.
C4_Original ==
    /\ (last.op = "skyMatrix" /\ isPointInTime(last.sky)) => last.err # "none"
    /\ last.op = "simulationType" =>
        /\ last.val \notin {IntVal(0), IntVal(1), IntVal(2)} => last.err # "none"
        /\ last.val \in {IntVal(0), IntVal(2)} => last.err = "none"
        /\ last.val = IntVal(1) => (last.err = "none" <=> isClimateBased(skyMatrix))

\* C4, amended: a point-in-time sky is rejected; the kind that is checked
\* is the assigned value converted to an integer: None is read as 0, a
\* fractional value is truncated toward zero, a string that is no number
\* is rejected; a converted kind outside {0,1,2} is rejected, 0 and 2 are
\* accepted on any sky matrix and recorded, 1 is accepted exactly when the
\* sky is climate-based.
C4_Validated ==
    /\ (last.op = "skyMatrix" /\ isPointInTime(last.sky)) => last.err # "none"
    /\ last.op = "simulationType" =>
        LET t == last.val.t
            v == last.val.v
            kind == CASE t = "int" -> v
                      [] t = "none" -> 0
                      [] t = "float" /\ v > 0 - 10 /\ v < 10 -> 0
                      [] t = "float" /\ v >= 10 /\ v < 20 -> 1
                      [] t = "float" /\ v >= 20 /\ v < 30 -> 2
                      [] OTHER -> 0 - 1
        IN  /\ kind \notin {0, 1, 2} => last.err # "none"
            /\ kind \in {0, 2} => (last.err = "none" /\ simType = kind)
            /\ kind = 1 => (last.err = "none" <=> isClimateBased(skyMatrix))

C4_Witness ==
    /\ last.op = "simulationType"
    /\ last.val = FloatVal(25)
    /\ last.err = "none"
    /\ simType = 2

\* C5: reading totalRunsCount returns 1 + the number of (window group,
\* state) pairs, which is 1 + the sum of the state counts, and changes no
\* state of the recipe.
C5_TotalRunsCount ==
    [][last'.op = "totalRunsCount" =>
        /\ ret' = 1 + Cardinality({p \in (1..Len(windowGroups)) \X (1..MaxStates) :
                                    p[2] <= windowGroups[p[1]]})
        /\ UNCHANGED recipeVars]_vars

C5_Witness ==
    /\ last.op = "totalRunsCount"
    /\ windowGroups = <<3, 2>>
    /\ ret = 6

(***************************************************************************)
(* Compile (Spec).  calls[k] records the k-th write() call: its header     *)
(* argument, the files on disk when it was made, and the lengths of the    *)
(* two accumulators before it.  Block(k) and RBlock(k) are what the k-th   *)
(* call appended to the command list and to the manifest.                  *)
(***************************************************************************)
Range(f) == {f[i] : i \in DOMAIN f}

BlockEnd(k) == IF k < Len(calls) THEN calls[k + 1].from ELSE Len(commands)
RBlockEnd(k) == IF k < Len(calls) THEN calls[k + 1].rfrom ELSE Len(resultFiles)
Block(k) == SubSeq(commands, calls[k].from + 1, BlockEnd(k))
RBlock(k) == SubSeq(resultFiles, calls[k].rfrom + 1, RBlockEnd(k))

AllStages(wgs) == {SceneStage} \cup Range(WGroupStages(wgs))

\* The generation commands of a daylight-coefficient stage in a block.
StageCmds(blk, st) ==
    {i \in 1..Len(blk) : /\ blk[i].stage \in {"scene", "wgroup"}
                         /\ blk[i].source = st.source
                         /\ blk[i].state = st.state}

Existed(k, st) == ResultName(st.source, st.state) \in calls[k].dsk

\* C6: in every write() call and for every daylight-coefficient stage, the
\* stage's output file is declared in the manifest; with reuseDaylightMtx
\* true and the output file on disk the call emits none of the stage's
\* commands; with reuseDaylightMtx false it emits them whether the file is
\* on disk or not.
C6_MatrixReuse ==
    LET stages == AllStages(windowGroups)
    IN  \A k \in 1..Len(calls) :
            LET blk == Block(k)
                declared == Range(RBlock(k))
            IN  \A st \in stages :
                    /\ ResultPath(st.source, st.state) \in declared
                    /\ (reuseDaylightMtx /\ Existed(k, st)) => StageCmds(blk, st) = {}
                    /\ ~reuseDaylightMtx => StageCmds(blk, st) # {}

C6_Witness ==
    /\ Len(calls) >= 1
    /\ reuseDaylightMtx
    /\ \E st \in AllStages(windowGroups) :
        /\ Existed(1, st)
        /\ ResultPath(st.source, st.state) \in Range(RBlock(1))
        /\ StageCmds(Block(1), st) = {}

\* C7: reuse is decided stage by stage: with reuseDaylightMtx true a call
\* emits commands for exactly the stages whose output is missing, whatever
\* subset of the outputs is on disk, and the manifest it declares is the
\* base-case file followed by one file per (group, state) pair, as when
\* nothing is reused.
C7_ReusePerStage ==
    LET wgStages == WGroupStages(windowGroups)
    IN  \A k \in 1..Len(calls) :
            LET blk == Block(k)
                rblk == RBlock(k)
            IN  /\ reuseDaylightMtx =>
                    \A st \in {SceneStage} \cup Range(wgStages) :
                        StageCmds(blk, st) # {} <=> ~Existed(k, st)
                /\ Len(rblk) = 1 + Len(wgStages)
                /\ rblk[1] = ResultPath("scene", "default")
                /\ \A i \in 1..Len(wgStages) :
                    rblk[i + 1] = ResultPath(wgStages[i].source, wgStages[i].state)

C7_Witness ==
    /\ Len(calls) >= 1
    /\ reuseDaylightMtx
    /\ Len(windowGroups) = 2
    /\ \E a, b \in Range(WGroupStages(windowGroups)) :
        /\ a.source # b.source
        /\ Existed(1, a) /\ StageCmds(Block(1), a) = {}
        /\ ~Existed(1, b) /\ StageCmds(Block(1), b) # {}
    /\ ~Existed(1, SceneStage)

\* The place of a stage in the dependency order.
Rank(c) ==
    CASE c.stage = "header" -> 0
      [] c.stage = "sky" -> 1
      [] c.stage = "scene" -> 2
      [] c.stage = "wgroup" -> 3
      [] OTHER -> 4

\* Stages never step back, and the header comes once.
Ordered(blk) ==
    \A i \in 1..(Len(blk) - 1) :
        \/ Rank(blk[i]) < Rank(blk[i + 1])
        \/ Rank(blk[i]) = Rank(blk[i + 1]) /\ Rank(blk[i]) > 0

HasHeader(blk) == \E i \in 1..Len(blk) : blk[i].stage = "header"

ScriptCmds == [i \in 1..(Len(batchFile) - 1) |-> batchFile[i + 1].cmd]

\* C8, as claimed: in the script written by any call, first or later, the
\* header block comes first, every sky command precedes every base-scene
\* command and every base-scene command precedes every window-group
\* command; the header block is there exactly when the call's header
\* argument is true.
C8_Original ==
    Len(calls) >= 1 =>
        /\ Ordered(ScriptCmds)
        /\ HasHeader(ScriptCmds) <=> calls[Len(calls)].hdr

\* C8, amended: the commands each call appends are in dependency order
\* (header, sky, base scene, window groups) and begin with the header
\* block exactly when that call's header argument is true; the script
\* written by the first call on a fresh instance is therefore in
\* dependency order as a whole.
C8_StageOrder ==
    /\ \A k \in 1..Len(calls) :
        LET blk == Block(k)
        IN  /\ Ordered(blk)
            /\ HasHeader(blk) <=> calls[k].hdr
    /\ Len(calls) = 1 =>
        /\ Ordered(ScriptCmds)
        /\ HasHeader(ScriptCmds) <=> calls[1].hdr

C8_Witness ==
    /\ Len(calls) = 2
    /\ calls[2].hdr
    /\ HasHeader(Block(2))
    /\ \E i \in 1..Len(Block(2)) : Block(2)[i].stage = "sky"
    /\ \E i \in 1..Len(Block(2)) : Block(2)[i].stage = "wgroup"

IsPrefix(a, b) == Len(a) <= Len(b) /\ SubSeq(b, 1, Len(a)) = a

SkyOnDisk(k) == SkyFile(calls[k].sky) \in calls[k].dsk

ScriptHoldsAll ==
    /\ Len(batchFile) = Len(commands) + 1
    /\ \A i \in 1..Len(commands) : batchFile[i + 1].cmd = commands[i]

\* C9, as claimed: every call leaves what the accumulators held as a
\* prefix and appends to it; with reuseDaylightMtx false and the calls
\* made alike, every call appends what the first one did, so after k calls
\* the accumulators are k copies of it; the script holds the commands of
\* all the calls.
C9_Original ==
    [][Len(calls') = Len(calls) + 1 =>
        /\ IsPrefix(commands, commands')
        /\ IsPrefix(resultFiles, resultFiles')
        /\ Len(commands') > Len(commands) \/ (reuseDaylightMtx /\ ~calls'[Len(calls')].hdr)
        /\ Len(resultFiles') > Len(resultFiles)
        /\ (~reuseDaylightMtx /\ \A k \in 1..Len(calls') : calls'[k].hdr = calls'[1].hdr) =>
            \A k \in 1..Len(calls') :
                /\ Block(k)' = Block(1)'
                /\ RBlock(k)' = RBlock(1)'
        /\ ScriptHoldsAll']_vars

\* C9, amended: as claimed, but the calls append the same commands only
\* when, besides an unchanged configuration, the same header argument and
\* reuseDaylightMtx false, the sky matrix file was on disk at all of the
\* calls or at none: the sky stage is reused whenever its file exists.
C9_Accumulates ==
    [][Len(calls') = Len(calls) + 1 =>
        /\ IsPrefix(commands, commands')
        /\ IsPrefix(resultFiles, resultFiles')
        /\ Len(commands') > Len(commands) \/ (reuseDaylightMtx /\ ~calls'[Len(calls')].hdr)
        /\ Len(resultFiles') > Len(resultFiles)
        /\ (/\ ~reuseDaylightMtx
            /\ \A k \in 1..Len(calls') : /\ calls'[k].hdr = calls'[1].hdr
                                         /\ SkyOnDisk(k)' = SkyOnDisk(1)') =>
            /\ \A k \in 1..Len(calls') :
                /\ Block(k)' = Block(1)'
                /\ RBlock(k)' = RBlock(1)'
            /\ Len(commands') = Len(calls') * Len(Block(1)')
            /\ Len(resultFiles') = Len(calls') * Len(RBlock(1)')
        /\ ScriptHoldsAll']_vars

C9_Witness ==
    /\ Len(calls) = 2
    /\ ~reuseDaylightMtx
    /\ calls[1].hdr /\ calls[2].hdr
    /\ SkyOnDisk(1) = SkyOnDisk(2)
    /\ Block(2) = Block(1)
    /\ Len(commands) = 2 * Len(Block(1))
    /\ Len(batchFile) = Len(commands) + 1
    /\ Len(windowGroups) >= 1

(***************************************************************************)
(* Whole life cycle (SpecLife).                                            *)
(***************************************************************************)

\* C10: results() called while the calculated flag is not set fails and
\* puts no value on any analysis grid; no assignment and no write() sets
\* the flag, only the caller's run does.
C10_ResultsGated ==
    [][/\ (last'.op = "results" /\ ~isCalculated) =>
            (last'.err = "AssertionError" /\ gridValues' = gridValues)
       /\ last'.op \in {"write", "simulationType", "skyMatrix", "results"} =>
            isCalculated' = isCalculated]_vars

C10_Witness ==
    /\ last.op = "results"
    /\ last.err = "AssertionError"
    /\ Len(calls) >= 1
    /\ ~isCalculated
    /\ gridValues = {}

(***************************************************************************)
(* The merger (SpecMerge).  An entry of gridValues is one value put on a   *)
(* point of a grid: the file and the data row it was read from, the time   *)
(* step, and the source and state it is filed under.                       *)
(***************************************************************************)
PointsBefore(k) == SumSeq(SubSeq(analysisGrids, 1, k - 1))

\* C11: whatever the manifest and the grids, the values of the k-th grid
\* are read from the rows that begin at the sum of the point counts of the
\* grids before it (row 0 for the first grid), and this holds anew for
\* every result file: the offset of a file does not carry over to the next.
C11_OffsetLaw ==
    /\ \A e \in gridValues : e.line = PointsBefore(e.grid) + e.point - 1
    /\ (last.op = "results" /\ last.err = "none") =>
        \A i \in 1..Len(resultFiles), k \in 1..Len(analysisGrids) :
            \E e \in gridValues : /\ e.file = resultFiles[i]
                                  /\ e.grid = k
                                  /\ e.point = 1
                                  /\ e.line = PointsBefore(k)

C11_Witness ==
    /\ last.op = "results"
    /\ last.err = "none"
    /\ Len(resultFiles) = 2
    /\ analysisGrids = <<2, 1, 2>>
    /\ \E e \in gridValues : e.file = resultFiles[1] /\ e.grid = 3 /\ e.line = 4
    /\ \E e \in gridValues : e.file = resultFiles[2] /\ e.grid = 1 /\ e.line = 0
    /\ \E e \in gridValues : e.file = resultFiles[2] /\ e.grid = 3 /\ e.line = 3

\* The base name of a result file, without its extension, holds "..".
HasDots(rf) ==
    LET t == dropLast4(basename(rf))
    IN  \E i \in 1..(Len(t) - 1) : t[i] = "." /\ t[i + 1] = "."

\* C12: results() fails whenever the manifest holds a file whose base name
\* has fewer than two segments separated by "..", and no value is ever
\* filed under an empty source or an empty state, whatever the file names.
C12_MalformedRejected ==
    /\ (last.op = "results" /\ \E i \in 1..Len(resultFiles) : ~HasDots(resultFiles[i]))
            => last.err # "none"
    /\ \A e \in gridValues : e.source # <<>> /\ e.state # <<>>

\* C13: when the result files hold a number of data rows that differs
\* from the sum of the point counts of the analysis grids, results() fails
\* and attributes no row to any grid.
C13_ShapeMismatchFails ==
    (/\ last.op = "results"
     /\ resultFiles # <<>>
     /\ dataLines # SumSeq(analysisGrids))
        => (last.err # "none" /\ gridValues = {})

(***************************************************************************)
(* Compile, continued.                                                     *)
(***************************************************************************)

\* C14: every write() call either writes the full script, or fails and
\* leaves the project folder as it found it: no geometry file, no points
\* file and no script has been written by the failed call.
C14_NoPartialWrite ==
    [][Len(calls') = Len(calls) + 1 =>
        \/ /\ last'.err = "none"
           /\ Len(batchFile') = Len(commands') + 1
        \/ /\ last'.err # "none"
           /\ disk' = disk
           /\ batchFile' = batchFile]_vars

\* The (group, state) pairs of a recipe, and the stages that have commands
\* in a block.
StatePairs(wgs) ==
    {p \in (1..Len(wgs)) \X (1..MaxStates) : p[2] <= wgs[p[1]]}

CommandGroups(blk) ==
    {<<blk[i].source, blk[i].state>> :
        i \in {j \in 1..Len(blk) : blk[j].stage \in {"scene", "wgroup"}}}

\* The source and state results() reads from a manifest entry.
Recovered(rf) == <<fn(rf)[Len(fn(rf)) - 1], fn(rf)[Len(fn(rf))]>>

\* C15: after one write() on a fresh instance the manifest holds the file
\* of the base case and one file per (window group, state) pair, 1 + the
\* number of pairs in all, which is totalRunsCount; no two entries are
\* equal, no two entries give results() the same (source, state), and each
\* entry gives back the source and state of its stage; with
\* reuseDaylightMtx false the call emits the commands of exactly that many
\* daylight-coefficient stages.
C15_OneFilePerStage ==
    Len(calls) = 1 =>
        LET pairs == StatePairs(windowGroups)
            n == Len(resultFiles)
        IN  /\ n = 1 + Cardinality(pairs)
            /\ n = totalRunsCount(windowGroups)
            /\ resultFiles[1] = ResultPath(SceneStage.source, SceneStage.state)
            /\ Recovered(resultFiles[1]) = <<<<SceneStage.source>>, <<SceneStage.state>>>>
            /\ \A p \in pairs :
                \E i \in 2..n :
                    /\ resultFiles[i] = ResultPath(WGName(p[1]), StateName(p[2] - 1))
                    /\ Recovered(resultFiles[i])
                            = <<<<WGName(p[1])>>, <<StateName(p[2] - 1)>>>>
            /\ \A i, j \in 1..n :
                i # j => /\ resultFiles[i] # resultFiles[j]
                         /\ Recovered(resultFiles[i]) # Recovered(resultFiles[j])
            /\ ~reuseDaylightMtx =>
                Cardinality(CommandGroups(commands)) = totalRunsCount(windowGroups)

C15_Witness ==
    /\ Len(calls) = 1
    /\ ~reuseDaylightMtx
    /\ windowGroups = <<2, 1>>
    /\ Len(resultFiles) = 4
    /\ Cardinality(CommandGroups(commands)) = 4
    /\ disk # {}

(***************************************************************************)
(* The merger, continued.                                                  *)
(***************************************************************************)

\* The sources a file name of the manifest may encode with state "0": a
\* word of the name alphabet, or the first window group.
Sources == {<<c>> : c \in NameChars \ {"."}} \cup {<<WGName(1)>>}

\* The file names that encode source S and state "0" in their last two
\* segments: with the project name in front, or with nothing in front.
Encoded(S) ==
    {join(projectFolder, S \o <<".", ".", "0">> \o Ext),
     join(projectFolder, <<projectName, ".", ".">> \o S \o <<".", ".", "0">> \o Ext)}

\* C16: for one grid of N points, T time steps and a manifest of one file
\* of exactly N data rows whose name encodes source S and state 0,
\* results() succeeds and the grid holds exactly N * T values: one for
\* every point and every time step, read from the row of the point and
\* filed under (S, 0), and nothing under another source or state.
C16_RoundTrip ==
    \A S \in Sources :
        (/\ last.op = "results"
         /\ Len(analysisGrids) = 1
         /\ Len(resultFiles) = 1
         /\ resultFiles[1] \in Encoded(S)
         /\ dataLines = analysisGrids[1]) =>
            LET N == analysisGrids[1]
                hrs == hoys(skyMatrix)
            IN  /\ last.err = "none"
                /\ Cardinality(gridValues) = N * Len(hrs)
                /\ \A e \in gridValues :
                    e.grid = 1 /\ e.source = S /\ e.state = <<"0">>
                /\ \A p \in 1..N, t \in 1..Len(hrs) :
                    \E e \in gridValues :
                        e.point = p /\ e.hoy = hrs[t] /\ e.line = p - 1

C16_Witness ==
    /\ last.op = "results"
    /\ last.err = "none"
    /\ analysisGrids = <<3>>
    /\ resultFiles = <<ResultPath(WGName(1), "0")>>
    /\ dataLines = 3
    /\ Len(hoys(skyMatrix)) = 2
    /\ Cardinality(gridValues) = 6
    /\ \A e \in gridValues : e.source = <<WGName(1)>> /\ e.state = <<"0">>

(***************************************************************************)
(* Compile, continued (Spec).                                              *)
(***************************************************************************)

\* The sky commands of a block, and the comment lines that open a sky
\* stage in it.
SkyCmds(blk) == {i \in 1..Len(blk) : blk[i].stage = "sky"}
SkyStages(blk) == {i \in SkyCmds(blk) : blk[i].comment}

\* C17: every write() call holds the sky stage at most once, however many
\* window groups and states there are; the call emits the sky commands
\* exactly when the sky matrix file was not on disk, whatever
\* reuseDaylightMtx says: with reuseDaylightMtx false and the file on disk
\* they are skipped all the same.
C17_SkyAlwaysReused ==
    \A k \in 1..Len(calls) :
        LET blk == Block(k)
        IN  /\ Cardinality(SkyStages(blk)) <= 1
            /\ SkyCmds(blk) # {} <=> ~SkyOnDisk(k)
            /\ \A i \in SkyCmds(blk) : blk[i].source = calls[k].sky

C17_Witness ==
    /\ Len(calls) >= 1
    /\ ~reuseDaylightMtx
    /\ SkyOnDisk(1)
    /\ SkyCmds(Block(1)) = {}
    /\ Len(windowGroups) = 2
    /\ \A st \in AllStages(windowGroups) : StageCmds(Block(1), st) # {}

\* C18: the script a write() call writes begins with "@echo off" and then
\* holds the accumulated commands, one line for each and in their order; a
\* line carries "echo " in front of its command exactly when the command
\* begins with "::", and the command behind it is the one of the list; the
\* call leaves the commands the list held as they were, so the comments of
\* an earlier call are written behind one "echo " again.
C18_ScriptText ==
    [][(Len(calls') = Len(calls) + 1 /\ last'.err = "none") =>
        /\ batchFile'[1] = EchoOff
        /\ Len(batchFile') = Len(commands') + 1
        /\ \A i \in 1..Len(commands') :
            /\ batchFile'[i + 1].cmd = commands'[i]
            /\ batchFile'[i + 1].echo <=> commands'[i].comment
        /\ IsPrefix(commands, commands')]_vars

C18_Witness ==
    /\ Len(calls) = 2
    /\ calls[2].from >= 3
    /\ batchFile[1] = EchoOff
    /\ batchFile[2] = [echo |-> FALSE, cmd |-> HeaderCmd]
    /\ batchFile[3].echo /\ batchFile[3].cmd = commands[2]
    /\ Len(batchFile) > calls[2].from + 2
    /\ batchFile[calls[2].from + 3].echo

(***************************************************************************)
(* Recipe from a points file (SpecPoints).                                 *)
(***************************************************************************)

\* The columns of a line of text: its words between blanks.
RECURSIVE columnsFrom(_, _)
columnsFrom(word, rest) ==
    IF rest = <<>> THEN (IF word = <<>> THEN <<>> ELSE <<word>>)
    ELSE IF rest[1] \in {" ", "\n"}
        THEN (IF word = <<>> THEN <<>> ELSE <<word>>) \o columnsFrom(<<>>, Tail(rest))
    ELSE columnsFrom(Append(word, rest[1]), Tail(rest))

Columns(line) == columnsFrom(<<>>, line)

\* C19: built from a file that can be read and a weather file named
\* *.epw, the recipe gets one point per row of the file, whose coordinates
\* are the first three columns of the row and whose direction is made of
\* the columns that follow them in the same row; built from a file that
\* cannot be read, the call fails with ValueError.
C19_OnePointPerRow ==
    last.op = "fromPointsFile" =>
        IF ~pointsFile.readable THEN ret.err = "ValueError"
        ELSE endswith(lower(last.val), <<".", "e", "p", "w">>) =>
            LET n == Len(pointsFile.lines)
            IN  /\ ret.err = "none"
                /\ Len(ret.pointGroups) = n
                /\ Len(ret.vectorGroups) = n
                /\ \A i \in 1..n :
                    LET cols == Columns(pointsFile.lines[i])
                        word == [j \in 1..Len(cols) |-> cols[j][1]]
                    IN  /\ ret.pointGroups[i] = SubSeq(word, 1, 3)
                        /\ ret.vectorGroups[i] = SubSeq(word, 4, Len(word))

(***************************************************************************)
(* Whole life cycle, continued (SpecLife).                                 *)
(***************************************************************************)

\* C20: an assignment of the simulation kind that fails leaves the recipe's
\* kind and the kind recorded on every sky as they were; an assignment of
\* the sky that fails leaves the recipe's sky as it was; and no
\* assignment, failed or not, touches the command list, the manifest or
\* the calculated flag.
C20_RejectedChangesNothing ==
    [][/\ (last'.op = "simulationType" /\ last'.err # "none") =>
            UNCHANGED <<simType, skyType, skyMatrix>>
       /\ (last'.op = "skyMatrix" /\ last'.err # "none") =>
            UNCHANGED <<skyMatrix, simType, skyType>>
       /\ last'.op \in {"simulationType", "skyMatrix"} =>
            UNCHANGED <<commands, resultFiles, isCalculated>>]_vars

C20_Witness ==
    /\ last.op = "simulationType"
    /\ last.val = IntVal(MaxKind)
    /\ last.err = "AssertionError"
    /\ simType = 1
    /\ skyType[skyMatrix] = 1
    /\ commands # <<>>
    /\ resultFiles # <<>>
    /\ isCalculated

====
